---------------------------- MODULE Spec2Model ----------------------------
(***************************************************************************)
(* Conditional order matcher: the order repository, the oracle price       *)
(* cache, the per-asset matcher workers (engine/mod.rs) and the HTTP       *)
(* handlers that write to the repository.                                  *)
(*                                                                         *)
(* Prices are fixed-point decimals, modelled as integers (units of the     *)
(* smallest price step).  Every await of the code is a step boundary: a    *)
(* worker tick is a sequence of steps (get_price, three list calls, one    *)
(* set_status per active order, the summary), and other tasks interleave   *)
(* between them.                                                           *)
(***************************************************************************)
EXTENDS Integers, Sequences, FiniteSets, TLC

\* ----------------------------------------------------------------- bounds
MaxOrders == 2
MaxPrice == 3
MaxNow == 1
MaxFails == 6
MaxSets == 3
MaxAssets == 4

\* ------------------------------------------------------------- vocabulary
Pairs == {"BTC/USDT", "ETH/USDT"}
Assets == {"BTC/USDT", "ETH/USDT"}
Sides == {"Buy", "Sell"}
OrderStatus == {"New", "Open", "PartiallyFilled", "Filled", "Cancelled"}
ActiveStatuses == <<"New", "Open", "PartiallyFilled">>
Terminal == {"Filled", "Cancelled"}
Ids == 1..MaxOrders
Prices == 1..MaxPrice
Quantities == {1}
TickTimes == {7}
\* The limit price of the orders and the oracle prices around it, in the
\* system specifications (below, at and above the limit).
LimitPrices == {2}
OraclePrices == {1, 2, 3}
\* The worker that the system specifications run.
Asset == "BTC/USDT"
\* The tasks that call get_price: the matcher workers.
Readers == Assets
\* OracleWsClient: the default endpoint and one that url::Url::parse rejects.
DefaultEndpoint == "ws://127.0.0.1:9001/ws"
Endpoints == {DefaultEndpoint, "not a url"}
\* Seconds: the default reconnect_backoff and the cap of the doubling.
DefaultBackoff == 2
BackoffCap == 30

VARIABLES
    orders,      \* InMemoryOrderRepository.inner: id -> Order
    nextId,      \* the next fresh id (a v4 UUID is never handed out twice)
    now,         \* the wall clock read by now_ms()
    cache,       \* OracleCache.inner: pair -> Tick
    pc,          \* per worker: "wait" | "collect" | "process" | "summary"
    px,          \* per worker: the price read by get_price in this tick
    ts,          \* per worker: the timestamp read by get_price in this tick
    li,          \* per worker: index of the next status to list (1..3)
    active,      \* per worker: the Vec<Order> built by collect_active_orders
    idx,         \* per worker: index of the next order of the for loop
    matched,     \* per worker: process_active_orders' matched counter
    promoted,    \* per worker: process_active_orders' promoted counter
    execs,       \* per worker: the EXECUTE records emitted in this tick
    failed,      \* per worker: ids whose set_status returned Err in this tick
                 \* (kept until the next tick starts processing)
    listFailed,  \* per worker: statuses whose list call returned Err in this tick
    retried,     \* per worker: ids of this tick's Vec whose set_status
                 \* returned Err in the previous tick
    writes,      \* per worker: set_status calls issued in this tick
    called,      \* per worker: has it ever issued a repository call
    skipped,     \* per worker: has it ever skipped a tick for want of a price
    probe,       \* the call under test (of crosses, or of the repository)
                 \* and its arguments, if any
    answer,      \* what that call returned, once made
    issued,      \* per worker: the set_status calls issued in this tick, as
                 \* (id, listed status, target status)
    stale,       \* per worker: the oracle client was not connected when
                 \* this tick read its price
    config,      \* the OracleWsClient, if one was spawned: endpoint, pair,
                 \* reconnect_backoff
    conn,        \* the client task: "Connecting" | "Connected" |
                 \* "WaitingBackoff" | "Panicked", or "NoClient"
    backoff,     \* the client task's local `backoff`, in seconds
    waits,       \* the sleeps of the client since its last successful
                 \* connect (or since start), in seconds
    lastFrame,   \* the last message the session's read loop handled, if any
    badSeen,     \* has this session handled a text frame that did not decode
    sent,        \* the frame written to the socket by the last turn of the
                 \* read loop, if any
    lastSet,     \* pair -> the tick of the most recent set call for it
    lock,        \* OracleCache.inner's RwLock: the writer and the readers in
    wpc,         \* the task calling set: "idle" | "price" | "ts"
    wtick,       \* the tick that task is storing, if any
    rpc,         \* per reader: "idle" | "price" | "ts" | "done"
    rprice,      \* per reader: the price it has read from the entry
    result,      \* per reader: what its get_price returned
    written      \* the ticks passed to set by that task so far

wvars == <<pc, px, ts, li, active, idx, matched, promoted, execs, failed,
           listFailed, retried, writes, called, skipped, issued, stale>>
fvars == <<probe, answer>>
ovars == <<config, conn, backoff, waits, lastFrame, badSeen, sent>>
kvars == <<lock, wpc, wtick, rpc, rprice, result, written>>
vars == <<orders, nextId, now, cache, pc, px, ts, li, active, idx, matched,
          promoted, execs, failed, listFailed, retried, writes, called,
          skipped, probe, answer, issued, stale, config, conn, backoff, waits,
          lastFrame, badSeen, sent, lastSet, lock, wpc, wtick, rpc, rprice, result,
          written>>

\* ------------------------------------------------------------------ helpers
Min(a, b) == IF a <= b THEN a ELSE b

Range(s) == {s[i] : i \in DOMAIN s}

\* All enumerations (without repetition) of the finite set S.
Perms(S) == {s \in [1..Cardinality(S) -> S] : Range(s) = S}


\* HashMap::insert / HashMap::remove
Insert(map, k, v) == [i \in DOMAIN map \cup {k} |-> IF i = k THEN v ELSE map[i]]
Remove(map, k) == [i \in DOMAIN map \ {k} |-> map[i]]

\* utils::now_ms(): the wall clock, in milliseconds.
now_ms == now

\* -------------------------------------------------------------- entities
\* Order::new (entities/order.rs): status New, created = updated = now.
Order_new(id, pair, side, price, quantity, t) ==
    [id |-> id, pair |-> pair, side |-> side, price |-> price,
     quantity |-> quantity, status |-> "New", created |-> t, updated |-> t]

\* NewOrder {pair, side, price, quantity}
NewOrder(pair, side, price, quantity) ==
    [pair |-> pair, side |-> side, price |-> price, quantity |-> quantity]

\* ------------------------------------------------------------ repository
\* Result values of the repository calls.
Err(map) == [map |-> map, ok |-> FALSE]

\* A create that returns the order without inserting it.
create_unstored(map, id, pair, side, price, quantity, t) ==
    [map |-> map, ok |-> TRUE,
     order |-> Order_new(id, pair, side, price, quantity, t)]

\* InMemoryOrderRepository::create; `id` is the fresh UUID, `t` is now_ms().
create(map, id, pair, side, price, quantity, t) ==
    LET order == Order_new(id, pair, side, price, quantity, t)
    IN  [map |-> Insert(map, id, order), ok |-> TRUE, order |-> order]

\* InMemoryOrderRepository::get_by_id
get_by_id(map, id) ==
    IF id \in DOMAIN map THEN [map |-> map, ok |-> TRUE, order |-> map[id]]
    ELSE Err(map)

\* Option<T>: None is the empty set, Some(x) the singleton {x}.
None == {}
Some(x) == {x}
Unwrap(opt) == CHOOSE x \in opt : TRUE

\* OracleWsClient {endpoint, pair, reconnect_backoff} and its Default.
OracleWsClient(endpoint, pair, reconnect_backoff) ==
    [pair |-> pair, endpoint |-> endpoint,
     reconnect_backoff |-> reconnect_backoff]

OracleWsClient_default == OracleWsClient(DefaultEndpoint, None, DefaultBackoff)

\* ListOrdersQuery {pair, status, limit, offset}, all Option.
ListOrdersQuery(pair, status, limit, offset) ==
    [pair |-> pair, status |-> status, limit |-> limit, offset |-> offset]

\* A list that ignores the pair filter.
list_any_pair(map, q, ord) ==
    LET values == [i \in DOMAIN ord |-> map[ord[i]]]
        items  == IF q.status # None
                  THEN SelectSeq(values, LAMBDA o : o.status = Unwrap(q.status))
                  ELSE values
        off    == IF q.offset = None THEN 0 ELSE Unwrap(q.offset)
        start  == IF off > 0 THEN off ELSE 0
        end0   == IF q.limit # None /\ Unwrap(q.limit) > 0
                  THEN start + Unwrap(q.limit)
                  ELSE Len(items)
        end    == Min(end0, Len(items))
    IN  IF start >= Len(items) THEN <<>>
        ELSE SubSeq(items, start + 1, end)

\* A list whose limit counts from the first item, not from the offset.
list_limit_absolute(map, q, ord) ==
    LET values == [i \in DOMAIN ord |-> map[ord[i]]]
        byPair == IF q.pair # None
                  THEN SelectSeq(values, LAMBDA o : o.pair = Unwrap(q.pair))
                  ELSE values
        items  == IF q.status # None
                  THEN SelectSeq(byPair, LAMBDA o : o.status = Unwrap(q.status))
                  ELSE byPair
        off    == IF q.offset = None THEN 0 ELSE Unwrap(q.offset)
        start  == IF off > 0 THEN off ELSE 0
        end0   == IF q.limit # None /\ Unwrap(q.limit) > 0
                  THEN Unwrap(q.limit)
                  ELSE Len(items)
        end    == Min(end0, Len(items))
    IN  IF start >= Len(items) THEN <<>>
        ELSE SubSeq(items, start + 1, end)

\* InMemoryOrderRepository::list.  `ord` is the order in which the HashMap
\* yields its values: an enumeration of the stored ids.
list(map, q, ord) ==
    LET values == [i \in DOMAIN ord |-> map[ord[i]]]
        byPair == IF q.pair # None
                  THEN SelectSeq(values, LAMBDA o : o.pair = Unwrap(q.pair))
                  ELSE values
        items  == IF q.status # None
                  THEN SelectSeq(byPair, LAMBDA o : o.status = Unwrap(q.status))
                  ELSE byPair
        off    == IF q.offset = None THEN 0 ELSE Unwrap(q.offset)
        start  == IF off > 0 THEN off ELSE 0
        end0   == IF q.limit # None /\ Unwrap(q.limit) > 0
                  THEN start + Unwrap(q.limit)
                  ELSE Len(items)
        end    == Min(end0, Len(items))
    IN  IF start >= Len(items) THEN <<>>
        ELSE SubSeq(items, start + 1, end)

\* A set_status that sets the status and clears the timestamp.
set_status_unstamped(map, id, status, t) ==
    IF id \notin DOMAIN map THEN Err(map)
    ELSE LET o == [map[id] EXCEPT !.status = status, !.updated = 0]
         IN  [map |-> [map EXCEPT ![id] = o], ok |-> TRUE, order |-> o]

\* A set_status that stores a fresh order under the id: the creation
\* timestamp is the time of the call.
set_status_recreated(map, id, status, t) ==
    IF id \notin DOMAIN map THEN Err(map)
    ELSE LET o == [map[id] EXCEPT !.status = status, !.created = t,
                                  !.updated = t]
         IN  [map |-> [map EXCEPT ![id] = o], ok |-> TRUE, order |-> o]

\* InMemoryOrderRepository::set_status; `t` is now_ms().
set_status(map, id, status, t) ==
    IF id \notin DOMAIN map THEN Err(map)
    ELSE LET o == [map[id] EXCEPT !.status = status, !.updated = t]
         IN  [map |-> [map EXCEPT ![id] = o], ok |-> TRUE, order |-> o]

\* A delete that empties the map.
delete_clear(map, id) ==
    IF id \in DOMAIN map THEN [map |-> <<>>, ok |-> TRUE]
    ELSE Err(map)

\* A delete that succeeds whether or not the id is stored.
delete_idempotent(map, id) ==
    [map |-> Remove(map, id), ok |-> TRUE]

\* InMemoryOrderRepository::delete
delete(map, id) ==
    IF id \in DOMAIN map THEN [map |-> Remove(map, id), ok |-> TRUE]
    ELSE Err(map)

\* The matcher is generic over OrderRepository, whose calls return Result:
\* `boom` is the backing store failing the call (FakeRepo's
\* fail_list_on_status / fail_set_for_ids in the engine's tests).
repo_list(map, q, ord, boom) ==
    IF boom THEN [ok |-> FALSE, items |-> <<>>]
    ELSE [ok |-> TRUE, items |-> list(map, q, ord)]

repo_set_status(map, id, status, t, boom) ==
    IF boom THEN Err(map) ELSE set_status(map, id, status, t)

\* ----------------------------------------------------------- oracle cache
Tick(pair, price, ts_ms) == [pair |-> pair, price |-> price, ts_ms |-> ts_ms]

\* Mutant of set: a tick older than the stored one is dropped.
set_if_newer(c, t) ==
    IF t.pair \in DOMAIN c /\ c[t.pair].ts_ms > t.ts_ms THEN c
    ELSE Insert(c, t.pair, t)

\* Mutant of set: the map is replaced by one holding the new tick alone.
set_alone(c, t) == Insert(<<>>, t.pair, t)

\* OracleCache::set
set(c, t) == Insert(c, t.pair, t)

\* Mutant of get_price: a missing entry reads as the default tick.
get_price_default(c, pair) ==
    IF pair \in DOMAIN c
    THEN Some([price |-> c[pair].price, ts_ms |-> c[pair].ts_ms])
    ELSE Some([price |-> 0, ts_ms |-> 0])

\* OracleCache::get_price: Some((price, ts_ms)) or None
get_price(c, pair) ==
    IF pair \in DOMAIN c
    THEN Some([price |-> c[pair].price, ts_ms |-> c[pair].ts_ms])
    ELSE None

\* tokio's RwLock on OracleCache.inner: write() is granted when nobody holds
\* the lock, read() when no writer does.
can_write(l) == ~l.writer /\ l.readers = {}

\* Mutant of can_read: readers do not wait for the writer.
can_read_always(l) == TRUE

can_read(l) == ~l.writer

\* OracleCache::pairs: the keys, in no particular order.
pairs(c) == DOMAIN c

\* ---------------------------------------------------------- oracle client
\* The payload of a text frame: `wellformed` says whether it is JSON at all,
\* `fields` is the JSON object (a record of the fields present).
Text(wellformed, fields) == [wellformed |-> wellformed, fields |-> fields]

\* serde_json::from_str::<Tick>: Some(tick), or None for Err.  The three
\* fields are required, unknown fields are ignored.
from_str(txt) ==
    IF txt.wellformed /\ {"pair", "price", "ts_ms"} \subseteq DOMAIN txt.fields
    THEN Some(Tick(txt.fields.pair, txt.fields.price, txt.fields.ts_ms))
    ELSE None

\* Mutant of on_text: a frame that does not decode ends the read loop.
on_text_break(c, txt) ==
    LET t == from_str(txt)
    IN  IF t # None THEN [cache |-> set(c, Unwrap(t)), brk |-> FALSE]
        ELSE [cache |-> c, brk |-> TRUE]

\* spawn: the Message::Text arm, on cache contents c: the new contents and
\* whether the read loop breaks.
on_text(c, txt) ==
    LET t == from_str(txt)
    IN  IF t # None THEN [cache |-> set(c, Unwrap(t)), brk |-> FALSE]
        ELSE [cache |-> c, brk |-> FALSE]

\* url::Url::parse(base) is Ok.
Url_parse_ok(base) == base = DefaultEndpoint

\* build_url: Some(url), or None when `expect("invalid ws endpoint")` panics.
build_url(base, pair) ==
    IF pair # None
    THEN IF Url_parse_ok(base)
         THEN Some(<<base, "pair", Unwrap(pair)>>)
         ELSE None
    ELSE Some(<<base>>)

\* spawn: backoff = (backoff * 2).min(Duration::from_secs(30))
next_backoff(b) == Min(b * 2, BackoffCap)

\* spawn's match on what the stream yielded, but for the Text arm: Close and
\* Err break out of the read loop and the stream's end leaves it; Binary,
\* Ping and every other message go on to the next read.
breaks_on_control(kind) == kind \in {"Close", "Error", "End", "Ping"}

breaks(kind) == kind \in {"Close", "Error", "End"}

\* A pong frame echoing a ping's payload.
Pong(payload) == [kind |-> "Pong", payload |-> payload]

\* What the loop's turn writes to the socket.  The Ping arm itself sends
\* nothing (`let _ = p;`): the pong is the reply tungstenite queues when
\* the stream yields a ping, and the next poll of read.next() writes it, so
\* it is sent when the loop goes on reading (brk is false).
reply(m, brk) ==
    IF m.kind = "Ping" /\ ~brk THEN Some(Pong(m.payload)) ELSE None

\* ----------------------------------------------------------------- engine
\* Mutant of crosses: strict comparisons, equality does not cross.
crosses_strict(o, oracle_px) ==
    IF o.side = "Buy" THEN o.price > oracle_px ELSE o.price < oracle_px

\* crosses (engine/mod.rs)
crosses(o, oracle_px) ==
    IF o.side = "Buy" THEN o.price >= oracle_px ELSE o.price <= oracle_px

\* Mutant of decide: a New order that does not cross is left alone.
decide_nopromote(o, p) ==
    IF crosses(o, p) THEN "fill" ELSE "skip"

\* Mutant of decide: every order that does not cross is promoted, whatever
\* its status.
decide_promote_any(o, p) ==
    IF crosses(o, p) THEN "fill" ELSE "promote"

\* process_active_orders: the branch taken for order o at price p.
decide(o, p) ==
    IF crosses(o, p) THEN "fill"
    ELSE IF o.status = "New" THEN "promote"
    ELSE "skip"

\* A log_exec that reports the order's limit as the execution price.
log_exec_limit(o, p, ts_ms) ==
    [pair |-> o.pair, side |-> o.side, order_id |-> o.id, qty |-> o.quantity,
     limit_px |-> o.price, exec_px |-> o.price, oracle_ts |-> ts_ms]

\* log_exec: the EXECUTE record
log_exec(o, p, ts_ms) ==
    [pair |-> o.pair, side |-> o.side, order_id |-> o.id, qty |-> o.quantity,
     limit_px |-> o.price, exec_px |-> p, oracle_ts |-> ts_ms]

\* Mutant of collect_one: a failed list call discards what was collected.
collect_one_drop(acc, r) == IF r.ok THEN acc \o r.items ELSE <<>>

\* Mutant of collect_one: a list result replaces the Vec instead of being
\* appended to it.
collect_one_replace(acc, r) == IF r.ok THEN r.items ELSE acc

\* collect_active_orders: what one list result does to the Vec built so far.
collect_one(acc, r) == IF r.ok THEN acc \o r.items ELSE acc

\* Mutant of process_one: the counters move before the result of set_status
\* is looked at.
process_one_count_anyway(map, o, p, ts_ms, t, boom) ==
    LET d == IF crosses(o, p) THEN "fill"
             ELSE IF o.status = "New" THEN "promote" ELSE "skip"
        r == repo_set_status(map, o.id, IF d = "fill" THEN "Filled" ELSE "Open",
                             t, boom)
    IN  IF d = "skip"
        THEN [matched |-> 0, promoted |-> 0, execs |-> <<>>, failed |-> FALSE,
              map |-> map, call |-> FALSE, target |-> "none"]
        ELSE [matched |-> IF d = "fill" THEN 1 ELSE 0,
              promoted |-> IF d = "promote" THEN 1 ELSE 0,
              execs |-> IF d = "fill" /\ r.ok
                        THEN <<log_exec(r.order, p, ts_ms)>> ELSE <<>>,
              failed |-> ~r.ok, map |-> r.map, call |-> TRUE,
              target |-> IF d = "fill" THEN "Filled" ELSE "Open"]

\* process_active_orders: the body of `for o in orders` for one order, on the
\* repository contents `map`: the new contents, the increments of the two
\* counters, the EXECUTE records emitted, whether set_status was called, with
\* which target status, and whether it failed.
process_one(map, o, p, ts_ms, t, boom) ==
    LET d == decide(o, p)
        r == repo_set_status(map, o.id, IF d = "fill" THEN "Filled" ELSE "Open",
                             t, boom)
    IN  IF d = "skip"
        THEN [matched |-> 0, promoted |-> 0, execs |-> <<>>, failed |-> FALSE,
              map |-> map, call |-> FALSE, target |-> "none"]
        ELSE [matched |-> IF d = "fill" /\ r.ok THEN 1 ELSE 0,
              promoted |-> IF d = "promote" /\ r.ok THEN 1 ELSE 0,
              execs |-> IF d = "fill" /\ r.ok
                        THEN <<log_exec(r.order, p, ts_ms)>> ELSE <<>>,
              failed |-> ~r.ok, map |-> r.map, call |-> TRUE,
              target |-> IF d = "fill" THEN "Filled" ELSE "Open"]

\* Mutant of after_order: a failed set_status ends the worker (the error is
\* propagated out of run_worker).
after_order_abort(i, n, err) ==
    IF err THEN "done" ELSE IF i = n THEN "summary" ELSE "process"

\* process_active_orders: where the worker is after order i of n, whose
\* set_status failed or not: the Err arms only log, the loop goes on, and
\* after the last order the function returns to run_worker.
after_order(i, n, err) == IF i = n THEN "summary" ELSE "process"

\* start_matchers: `for asset in assets` spawns one run_worker task per
\* element of the list, in order; the tasks spawned, each with the asset it
\* is given.
start_matchers(assets) == [i \in 1..Len(assets) |-> [asset |-> assets[i]]]

\* -------------------------------------------------------------- initially
NoWorker(v) == [a \in Assets |-> v]

WorkersInit ==
    /\ pc = NoWorker("wait")
    /\ px = NoWorker(0)
    /\ ts = NoWorker(0)
    /\ li = NoWorker(1)
    /\ active = NoWorker(<<>>)
    /\ idx = NoWorker(1)
    /\ matched = NoWorker(0)
    /\ promoted = NoWorker(0)
    /\ execs = NoWorker(<<>>)
    /\ failed = NoWorker({})
    /\ listFailed = NoWorker({})
    /\ retried = NoWorker({})
    /\ writes = NoWorker(0)
    /\ called = NoWorker(FALSE)
    /\ skipped = NoWorker(FALSE)
    /\ issued = NoWorker(<<>>)
    /\ stale = NoWorker(FALSE)

NoProbe ==
    /\ probe = None
    /\ answer = None

\* OracleWsClient::spawn, up to the loop: backoff starts at
\* reconnect_backoff and the task is about to connect.
ClientInit(c) ==
    /\ config = Some(c)
    /\ conn = "Connecting"
    /\ backoff = c.reconnect_backoff
    /\ waits = <<>>
    /\ lastFrame = None
    /\ badSeen = FALSE
    /\ sent = None

\* No oracle client was spawned (the engine's tests set the cache directly).
NoClient ==
    /\ config = None
    /\ conn = "NoClient"
    /\ backoff = 0
    /\ waits = <<>>
    /\ lastFrame = None
    /\ badSeen = FALSE
    /\ sent = None

\* OracleCache::default(): nobody holds the lock, no call is in progress.
CacheIdle ==
    /\ lock = [writer |-> FALSE, readers |-> {}]
    /\ wpc = "idle"
    /\ wtick = None
    /\ rpc = [r \in Readers |-> "idle"]
    /\ rprice = [r \in Readers |-> 0]
    /\ result = [r \in Readers |-> None]
    /\ written = {}

\* main(): an empty repository, an empty cache, the default oracle client
\* spawned, the workers waiting.
Init ==
    /\ orders = <<>>
    /\ nextId = 1
    /\ now = 0
    /\ cache = <<>>
    /\ lastSet = <<>>
    /\ WorkersInit
    /\ NoProbe
    /\ ClientInit(OracleWsClient_default)
    /\ CacheIdle

\* ------------------------------------------------------------ matcher steps
\* run_worker, from the interval tick to the get_price result: without a
\* price the tick is skipped (continue); with one the worker goes on to
\* collect_active_orders.
run_worker_tick(a) ==
    /\ pc[a] = "wait"
    /\ LET p == get_price(cache, a)
       IN  IF p = None
           THEN /\ skipped' = [skipped EXCEPT ![a] = TRUE]
                /\ UNCHANGED <<pc, px, ts, li, active, listFailed, stale>>
           ELSE /\ pc' = [pc EXCEPT ![a] = "collect"]
                /\ px' = [px EXCEPT ![a] = Unwrap(p).price]
                /\ ts' = [ts EXCEPT ![a] = Unwrap(p).ts_ms]
                /\ li' = [li EXCEPT ![a] = 1]
                /\ active' = [active EXCEPT ![a] = <<>>]
                /\ listFailed' = [listFailed EXCEPT ![a] = {}]
                /\ stale' = [stale EXCEPT
                       ![a] = conn \in {"Connecting", "WaitingBackoff"}]
                /\ UNCHANGED skipped
    /\ UNCHANGED <<idx, matched, promoted, execs, failed, retried, writes,
                   called, issued>>
    /\ UNCHANGED <<orders, nextId, now, cache>>
    /\ UNCHANGED fvars
    /\ UNCHANGED ovars
    /\ UNCHANGED kvars
    /\ UNCHANGED lastSet

\* collect_active_orders: one iteration of its loop over New, Open,
\* PartiallyFilled, i.e. one list call.  After the third, run_worker
\* continues with process_active_orders, or skips the tick when nothing is
\* active.
collect_active_orders(a, ord, boom) ==
    /\ pc[a] = "collect"
    /\ LET status == ActiveStatuses[li[a]]
           r == repo_list(orders,
                          ListOrdersQuery(Some(a), Some(status), None, None),
                          ord, boom)
           got == collect_one(active[a], r)
           last == li[a] = Len(ActiveStatuses)
           empty == last /\ got = <<>>
       IN  /\ active' = [active EXCEPT ![a] = got]
           /\ listFailed' = [listFailed EXCEPT
                  ![a] = IF empty THEN {}
                         ELSE IF r.ok THEN @ ELSE @ \cup {status}]
           /\ li' = [li EXCEPT ![a] = IF last THEN 1 ELSE @ + 1]
           /\ pc' = [pc EXCEPT ![a] = IF ~last THEN "collect"
                                      ELSE IF empty THEN "wait"
                                      ELSE "process"]
           /\ failed' = [failed EXCEPT ![a] = IF empty THEN {} ELSE @]
           /\ px' = [px EXCEPT ![a] = IF empty THEN 0 ELSE @]
           /\ ts' = [ts EXCEPT ![a] = IF empty THEN 0 ELSE @]
           /\ stale' = [stale EXCEPT ![a] = IF empty THEN FALSE ELSE @]
    /\ called' = [called EXCEPT ![a] = TRUE]
    /\ UNCHANGED <<idx, matched, promoted, execs, retried, writes, skipped,
                   issued>>
    /\ UNCHANGED <<orders, nextId, now, cache>>
    /\ UNCHANGED fvars
    /\ UNCHANGED ovars
    /\ UNCHANGED kvars
    /\ UNCHANGED lastSet

\* process_active_orders: one iteration of `for o in orders`; `boom` is the
\* store failing the set_status call.  After the last order the function
\* returns (matched, promoted) to run_worker.
process_active_orders(a, boom) ==
    /\ pc[a] = "process"
    /\ LET o == active[a][idx[a]]
           r == process_one(orders, o, px[a], ts[a], now_ms, boom)
       IN  /\ orders' = r.map
           /\ matched' = [matched EXCEPT ![a] = @ + r.matched]
           /\ promoted' = [promoted EXCEPT ![a] = @ + r.promoted]
           /\ execs' = [execs EXCEPT ![a] = @ \o r.execs]
           /\ writes' = [writes EXCEPT ![a] = IF r.call THEN @ + 1 ELSE @]
           /\ failed' = [failed EXCEPT
                  ![a] = (IF idx[a] = 1 THEN {} ELSE @)
                         \cup (IF r.failed THEN {o.id} ELSE {})]
           /\ retried' = [retried EXCEPT
                  ![a] = IF idx[a] = 1
                         THEN failed[a] \cap {x.id : x \in Range(active[a])}
                         ELSE @]
           /\ called' = [called EXCEPT ![a] = @ \/ r.call]
           /\ issued' = [issued EXCEPT
                  ![a] = IF r.call
                         THEN Append(@, [id |-> o.id, target |-> r.target,
                                         listed |-> o.status])
                         ELSE @]
           /\ pc' = [pc EXCEPT
                  ![a] = after_order(idx[a], Len(active[a]), r.failed)]
    /\ idx' = [idx EXCEPT ![a] = @ + 1]
    /\ UNCHANGED <<px, ts, li, active, listFailed, skipped, stale>>
    /\ UNCHANGED <<nextId, now, cache>>
    /\ UNCHANGED fvars
    /\ UNCHANGED ovars
    /\ UNCHANGED kvars
    /\ UNCHANGED lastSet

\* run_worker: the tick summary; the loop returns to the interval wait and
\* the locals of the iteration are gone.
run_worker_summary(a) ==
    /\ pc[a] = "summary"
    /\ pc' = [pc EXCEPT ![a] = "wait"]
    /\ active' = [active EXCEPT ![a] = <<>>]
    /\ idx' = [idx EXCEPT ![a] = 1]
    /\ matched' = [matched EXCEPT ![a] = 0]
    /\ promoted' = [promoted EXCEPT ![a] = 0]
    /\ execs' = [execs EXCEPT ![a] = <<>>]
    /\ writes' = [writes EXCEPT ![a] = 0]
    /\ retried' = [retried EXCEPT ![a] = {}]
    /\ listFailed' = [listFailed EXCEPT ![a] = {}]
    /\ issued' = [issued EXCEPT ![a] = <<>>]
    /\ stale' = [stale EXCEPT ![a] = FALSE]
    /\ px' = [px EXCEPT ![a] = 0]
    /\ ts' = [ts EXCEPT ![a] = 0]
    /\ UNCHANGED <<li, failed, called, skipped>>
    /\ UNCHANGED <<orders, nextId, now, cache>>
    /\ UNCHANGED fvars
    /\ UNCHANGED ovars
    /\ UNCHANGED kvars
    /\ UNCHANGED lastSet

\* ------------------------------------------------------------ oracle feed
\* A tick is stored by a direct call of OracleCache::set, as the engine's
\* tests feed the cache.
oracle_tick(pair, price, ts_ms) ==
    /\ cache' = set(cache, Tick(pair, price, ts_ms))
    /\ lastSet' = Insert(lastSet, pair, Tick(pair, price, ts_ms))
    /\ UNCHANGED <<orders, nextId, now>>
    /\ UNCHANGED wvars
    /\ UNCHANGED fvars
    /\ UNCHANGED ovars
    /\ UNCHANGED kvars

\* ------------------------------------------------------------ oracle client
\* spawn: the head of the loop, build_url and connect_async.  `ok` is the
\* server accepting the connection; a string that is no URL never connects.
\* On Ok the backoff is reset and the read loop starts; on Err the task goes
\* on to sleep(backoff).
client_connect(ok) ==
    /\ conn = "Connecting"
    /\ LET c == Unwrap(config)
           url == build_url(c.endpoint, c.pair)
       IN  IF url = None
           THEN /\ conn' = "Panicked"
                /\ UNCHANGED <<backoff, waits, badSeen, lastFrame, sent>>
           ELSE IF ok /\ Url_parse_ok(c.endpoint)
           THEN /\ conn' = "Connected"
                /\ backoff' = c.reconnect_backoff
                /\ waits' = <<>>
                /\ badSeen' = FALSE
                /\ lastFrame' = None
                /\ sent' = None
           ELSE /\ Len(waits) < MaxFails
                /\ conn' = "WaitingBackoff"
                /\ waits' = Append(waits, backoff)
                /\ UNCHANGED <<backoff, badSeen, lastFrame, sent>>
    /\ UNCHANGED <<config, cache, lastSet>>
    /\ UNCHANGED <<orders, nextId, now>>
    /\ UNCHANGED wvars
    /\ UNCHANGED fvars
    /\ UNCHANGED kvars

\* spawn: one turn of `while let Some(msg) = read.next().await`.  `m` is what
\* the stream yields: a message, a read error ("Error") or its end ("End").
client_message(m) ==
    /\ conn = "Connected"
    /\ LET r == IF m.kind = "Text" THEN on_text(cache, m.txt)
                ELSE [cache |-> cache, brk |-> breaks(m.kind)]
           t == IF m.kind = "Text" THEN from_str(m.txt) ELSE None
       IN  /\ r.brk => Len(waits) < MaxFails
           /\ cache' = r.cache
           /\ lastSet' = IF t # None
                          THEN Insert(lastSet, Unwrap(t).pair, Unwrap(t))
                          ELSE lastSet
           /\ conn' = IF r.brk THEN "WaitingBackoff" ELSE "Connected"
           /\ waits' = IF r.brk THEN Append(waits, backoff) ELSE waits
           /\ badSeen' = (badSeen \/ (m.kind = "Text" /\ t = None))
           /\ sent' = reply(m, r.brk)
    /\ lastFrame' = Some(m)
    /\ UNCHANGED <<config, backoff>>
    /\ UNCHANGED <<orders, nextId, now>>
    /\ UNCHANGED wvars
    /\ UNCHANGED fvars
    /\ UNCHANGED kvars

\* spawn: sleep(backoff) is over; the backoff doubles up to the cap and the
\* loop starts again.
client_wake ==
    /\ conn = "WaitingBackoff"
    /\ backoff' = next_backoff(backoff)
    /\ conn' = "Connecting"
    /\ UNCHANGED <<config, waits, lastFrame, badSeen, sent, cache, lastSet>>
    /\ UNCHANGED <<orders, nextId, now>>
    /\ UNCHANGED wvars
    /\ UNCHANGED fvars
    /\ UNCHANGED kvars

\* ------------------------------------------------- the cache, lock by lock
\* OracleCache::set, `self.inner.write().await`: the task waits until the
\* write lock is granted.
set_acquire(t) ==
    /\ wpc = "idle"
    /\ can_write(lock)
    /\ Cardinality(written \cup {t}) <= MaxSets
    /\ lock' = [lock EXCEPT !.writer = TRUE]
    /\ wtick' = Some(t)
    /\ wpc' = "price"
    /\ written' = written \cup {t}
    /\ UNCHANGED <<rpc, rprice, result, cache, lastSet>>
    /\ UNCHANGED <<orders, nextId, now>>
    /\ UNCHANGED wvars
    /\ UNCHANGED fvars
    /\ UNCHANGED ovars

\* OracleCache::set, `w.insert(..)`: the entry is being written under the
\* lock, the price first; until the insert is complete the entry holds the
\* new price next to the old timestamp (none yet for a new key).
set_insert_price ==
    /\ wpc = "price"
    /\ LET t == Unwrap(wtick)
       IN  cache' = IF t.pair \in DOMAIN cache
                    THEN [cache EXCEPT ![t.pair].price = t.price]
                    ELSE Insert(cache, t.pair, Tick(t.pair, t.price, 0))
    /\ wpc' = "ts"
    /\ UNCHANGED <<lock, wtick, rpc, rprice, result, written, lastSet>>
    /\ UNCHANGED <<orders, nextId, now>>
    /\ UNCHANGED wvars
    /\ UNCHANGED fvars
    /\ UNCHANGED ovars

\* OracleCache::set: the insert is complete and the guard is dropped.
set_insert_done ==
    /\ wpc = "ts"
    /\ cache' = set(cache, Unwrap(wtick))
    /\ lastSet' = Insert(lastSet, Unwrap(wtick).pair, Unwrap(wtick))
    /\ lock' = [lock EXCEPT !.writer = FALSE]
    /\ wpc' = "idle"
    /\ wtick' = None
    /\ UNCHANGED <<rpc, rprice, result, written>>
    /\ UNCHANGED <<orders, nextId, now>>
    /\ UNCHANGED wvars
    /\ UNCHANGED fvars
    /\ UNCHANGED ovars

\* OracleCache::get_price(r), `self.inner.read().await`, called by the worker
\* of asset r.
get_acquire(r) ==
    /\ rpc[r] = "idle"
    /\ can_read(lock)
    /\ lock' = [lock EXCEPT !.readers = @ \cup {r}]
    /\ rpc' = [rpc EXCEPT ![r] = "price"]
    /\ UNCHANGED <<wpc, wtick, rprice, result, written, cache, lastSet>>
    /\ UNCHANGED <<orders, nextId, now>>
    /\ UNCHANGED wvars
    /\ UNCHANGED fvars
    /\ UNCHANGED ovars

\* get_price: `r.get(pair)` and the first field of `(t.price, t.ts_ms)`; a
\* missing entry makes the call return None.
get_load_price(r) ==
    /\ rpc[r] = "price"
    /\ IF r \in DOMAIN cache
       THEN /\ rprice' = [rprice EXCEPT ![r] = cache[r].price]
            /\ rpc' = [rpc EXCEPT ![r] = "ts"]
            /\ UNCHANGED <<lock, result>>
       ELSE /\ result' = [result EXCEPT ![r] = None]
            /\ rpc' = [rpc EXCEPT ![r] = "done"]
            /\ lock' = [lock EXCEPT !.readers = @ \ {r}]
            /\ UNCHANGED rprice
    /\ UNCHANGED <<wpc, wtick, written, cache, lastSet>>
    /\ UNCHANGED <<orders, nextId, now>>
    /\ UNCHANGED wvars
    /\ UNCHANGED fvars
    /\ UNCHANGED ovars

\* get_price: the second field, the guard is dropped and the call returns.
get_load_ts(r) ==
    /\ rpc[r] = "ts"
    /\ result' = [result EXCEPT
           ![r] = Some([price |-> rprice[r], ts_ms |-> cache[r].ts_ms])]
    /\ rpc' = [rpc EXCEPT ![r] = "done"]
    /\ lock' = [lock EXCEPT !.readers = @ \ {r}]
    /\ UNCHANGED <<wpc, wtick, rprice, written, cache, lastSet>>
    /\ UNCHANGED <<orders, nextId, now>>
    /\ UNCHANGED wvars
    /\ UNCHANGED fvars
    /\ UNCHANGED ovars

\* The caller has used the result and will call again.
get_return(r) ==
    /\ rpc[r] = "done"
    /\ rpc' = [rpc EXCEPT ![r] = "idle"]
    /\ result' = [result EXCEPT ![r] = None]
    /\ rprice' = [rprice EXCEPT ![r] = 0]
    /\ UNCHANGED <<lock, wpc, wtick, written, cache, lastSet>>
    /\ UNCHANGED <<orders, nextId, now>>
    /\ UNCHANGED wvars
    /\ UNCHANGED fvars
    /\ UNCHANGED ovars

\* ----------------------------------------------------------- HTTP surface
\* ApiError::status_code
status_code(e) ==
    CASE e = "NotFound" -> 404
      [] e = "BadRequest" -> 400
      [] e = "Internal" -> 500

\* GET /orders/{id}: the response of the handler.
get_order(map, id) ==
    LET r == get_by_id(map, id)
    IN  IF r.ok THEN [status |-> 200, body |-> r.order]
        ELSE [status |-> status_code("NotFound")]

\* POST /orders
create_order(pair, side, price, quantity) ==
    /\ nextId <= MaxOrders
    /\ orders' = create(orders, nextId, pair, side, price, quantity, now_ms).map
    /\ nextId' = nextId + 1
    /\ UNCHANGED <<now, cache>>
    /\ UNCHANGED wvars
    /\ UNCHANGED fvars
    /\ UNCHANGED ovars
    /\ UNCHANGED kvars
    /\ UNCHANGED lastSet

\* PUT /orders/{id}/status
update_status(id, status) ==
    /\ orders' = set_status(orders, id, status, now_ms).map
    /\ UNCHANGED <<nextId, now, cache>>
    /\ UNCHANGED wvars
    /\ UNCHANGED fvars
    /\ UNCHANGED ovars
    /\ UNCHANGED kvars
    /\ UNCHANGED lastSet

\* DELETE /orders/{id}
delete_order(id) ==
    /\ orders' = delete(orders, id).map
    /\ UNCHANGED <<nextId, now, cache>>
    /\ UNCHANGED wvars
    /\ UNCHANGED fvars
    /\ UNCHANGED ovars
    /\ UNCHANGED kvars
    /\ UNCHANGED lastSet

\* ------------------------------------------- the repository, call by call
\* A caller of the repository keeping what each call returned, as the
\* repository's tests and the API tests do: `probe` is the call, `answer`
\* its Result.
call_create(new) ==
    /\ nextId <= MaxOrders
    /\ LET r == create(orders, nextId, new.pair, new.side, new.price,
                       new.quantity, now_ms)
       IN  /\ orders' = r.map
           /\ answer' = Some(r)
    /\ nextId' = nextId + 1
    /\ probe' = Some([new |-> new, op |-> "create"])
    /\ UNCHANGED <<now, cache>>
    /\ UNCHANGED wvars
    /\ UNCHANGED ovars
    /\ UNCHANGED kvars
    /\ UNCHANGED lastSet

call_get_by_id(id) ==
    /\ LET r == get_by_id(orders, id)
       IN  /\ orders' = r.map
           /\ answer' = Some(r)
    /\ probe' = Some([id |-> id, op |-> "get_by_id"])
    /\ UNCHANGED <<nextId, now, cache>>
    /\ UNCHANGED wvars
    /\ UNCHANGED ovars
    /\ UNCHANGED kvars
    /\ UNCHANGED lastSet

call_set_status(id, status) ==
    /\ LET r == set_status(orders, id, status, now_ms)
       IN  /\ orders' = r.map
           /\ answer' = Some(r)
    /\ probe' = Some([id |-> id, status |-> status, op |-> "set_status"])
    /\ UNCHANGED <<nextId, now, cache>>
    /\ UNCHANGED wvars
    /\ UNCHANGED ovars
    /\ UNCHANGED kvars
    /\ UNCHANGED lastSet

call_delete(id) ==
    /\ LET r == delete(orders, id)
       IN  /\ orders' = r.map
           /\ answer' = Some(r)
    /\ probe' = Some([id |-> id, op |-> "delete"])
    /\ UNCHANGED <<nextId, now, cache>>
    /\ UNCHANGED wvars
    /\ UNCHANGED ovars
    /\ UNCHANGED kvars
    /\ UNCHANGED lastSet

\* list takes the read lock and returns a Vec of clones: the map is not
\* touched.  `ord` is the HashMap's iteration order at the call.
call_list(q, ord) ==
    /\ answer' = Some([ok |-> TRUE, items |-> list(orders, q, ord)])
    /\ probe' = Some([q |-> q, ord |-> ord, op |-> "list"])
    /\ UNCHANGED <<orders, nextId, now, cache>>
    /\ UNCHANGED wvars
    /\ UNCHANGED ovars
    /\ UNCHANGED kvars
    /\ UNCHANGED lastSet

\* ------------------------------------------------------------------ time
\* A millisecond passes.
clock_advance ==
    /\ now < MaxNow
    /\ now' = now + 1
    /\ UNCHANGED <<orders, nextId, cache>>
    /\ UNCHANGED wvars
    /\ UNCHANGED fvars
    /\ UNCHANGED ovars
    /\ UNCHANGED kvars
    /\ UNCHANGED lastSet

\* ------------------------------------------------------------ the system
\* The steps of the worker of asset a; `booms` says whether the backing
\* store may fail a call ({FALSE}: the in-memory repository, which fails
\* only with "not found").
Worker(a, booms) ==
    \/ run_worker_tick(a)
    \/ \E ord \in Perms(DOMAIN orders), boom \in booms :
           collect_active_orders(a, ord, boom)
    \/ \E boom \in booms : process_active_orders(a, boom)
    \/ run_worker_summary(a)

Oracle(ps, prices) ==
    \E p \in ps, price \in prices, t \in TickTimes : oracle_tick(p, price, t)

Http(sides) ==
    \/ \E p \in Pairs, s \in sides, price \in LimitPrices, q \in Quantities :
           create_order(p, s, price, q)
    \/ \E id \in Ids, st \in OrderStatus : update_status(id, st)
    \/ \E id \in Ids : delete_order(id)

\* tungstenite's Message, or what else the stream can yield.
Message(kind) == [kind |-> kind]
PingMessage(payload) == [kind |-> "Ping", payload |-> payload]
TextMessage(txt) == [txt |-> txt, kind |-> "Text"]

\* The oracle server pushing ticks over an established session.
Feed(ps, prices) ==
    \E p \in ps, price \in prices, t \in TickTimes :
        client_message(TextMessage(Text(TRUE, Tick(p, price, t))))

\* The whole process: the HTTP surface over the in-memory repository, the
\* oracle client and its feed, and the matcher worker of one asset, all
\* interleaved.  The clients submit buy orders at the limit price; the
\* oracle quotes the limit (crossing) or above it (not crossing).
Next ==
    \/ Worker(Asset, {FALSE})
    \/ client_connect(TRUE)
    \/ Feed({Asset}, {2, 3})
    \/ Http({"Buy"})

Spec == Init /\ [][Next]_vars

\* The matcher on a seeded repository, as the engine's tests run it: the
\* orders are seeded in any status, then only the oracle feed, the clock and
\* the worker act, and the store may fail any call.
Seeds ==
    {m \in [Ids -> [id : Ids, pair : Pairs, side : Sides, price : LimitPrices,
                    quantity : Quantities, status : OrderStatus,
                    created : {0}, updated : {0}]] :
        \A i \in Ids : m[i].id = i}

InitMatcher ==
    /\ orders \in Seeds
    /\ nextId = MaxOrders + 1
    /\ now = 0
    /\ cache = <<>>
    /\ lastSet = <<>>
    /\ WorkersInit
    /\ NoProbe
    /\ NoClient
    /\ CacheIdle

NextMatcher ==
    \/ Worker(Asset, BOOLEAN)
    \/ Oracle({Asset}, OraclePrices)
    \/ clock_advance

SpecMatcher == InitMatcher /\ [][NextMatcher]_vars

\* One worker running for ever on a seeded repository whose store may fail
\* any call: the tokio runtime keeps scheduling the worker task and its
\* interval keeps firing, so the worker's steps are weakly fair.  Nothing is
\* assumed of the feed.
NextRun ==
    \/ Worker(Asset, BOOLEAN)
    \/ Oracle({Asset}, {2, 3})

SpecRun ==
    InitMatcher /\ [][NextRun]_vars /\ WF_vars(Worker(Asset, BOOLEAN))

\* Two workers on a seeded repository, the feed publishing one of the two
\* pairs only: the other worker never finds a price.
Unquoted == "ETH/USDT"

NextAbsent ==
    \/ Worker(Asset, {FALSE})
    \/ Worker(Unquoted, {FALSE})
    \/ Oracle({Asset}, {2, 3})

SpecAbsent == InitMatcher /\ [][NextAbsent]_vars

\* Two workers on a seeded repository, the feed publishing both pairs: both
\* workers tick, each step of one interleaved with the steps of the other.
NextPair ==
    \/ Worker(Asset, {FALSE})
    \/ Worker(Unquoted, {FALSE})
    \/ Oracle(Pairs, {2, 3})

SpecPair == InitMatcher /\ [][NextPair]_vars

\* The HTTP surface and the matcher worker on one repository while the clock
\* runs: orders are created, set to any status by PUT, deleted, promoted and
\* filled, at different times.
NextFrame ==
    \/ Worker(Asset, {FALSE})
    \/ Oracle({Asset}, {2, 3})
    \/ \E q \in Quantities : create_order(Asset, "Buy", 2, q)
    \/ \E id \in Ids, st \in {"Open", "Cancelled"} : update_status(id, st)
    \/ \E id \in Ids : delete_order(id)
    \/ clock_advance

SpecFrame == Init /\ [][NextFrame]_vars

\* The matcher on a seeded repository while the oracle client's session
\* comes and goes: the connection is refused or established, the feed
\* publishes both pairs, the session is closed or fails, the client sleeps
\* and reconnects.
StaleSeeds ==
    {m \in Seeds : \A i \in Ids : m[i].pair = Asset /\ m[i].side = "Buy"}

InitStale ==
    /\ orders \in StaleSeeds
    /\ nextId = MaxOrders + 1
    /\ now = 0
    /\ cache = <<>>
    /\ lastSet = <<>>
    /\ WorkersInit
    /\ NoProbe
    /\ ClientInit(OracleWsClient_default)
    /\ CacheIdle

NextStale ==
    \/ Worker(Asset, {FALSE})
    \/ \E ok \in BOOLEAN : client_connect(ok)
    \/ Feed(Pairs, {2, 3})
    \/ \E k \in {"Close", "Error"} : client_message(Message(k))
    \/ client_wake

SpecStale == InitStale /\ [][NextStale]_vars

\* The worker of one asset under fair scheduling: the interval keeps firing
\* and the runtime keeps polling the task, so a step the worker can take is
\* eventually taken; the store fails no call and the feed goes on quoting
\* while the tick runs.
FairSeeds == {m \in Seeds : \A i \in Ids : m[i].pair = Asset}

InitFair ==
    /\ orders \in FairSeeds
    /\ nextId = MaxOrders + 1
    /\ now = 0
    /\ cache = <<>>
    /\ lastSet = <<>>
    /\ WorkersInit
    /\ NoProbe
    /\ NoClient
    /\ CacheIdle

NextFair ==
    \/ Worker(Asset, {FALSE})
    \/ Oracle({Asset}, OraclePrices)

SpecFair == InitFair /\ [][NextFair]_vars /\ WF_vars(Worker(Asset, {FALSE}))

\* The oracle client on its own, in any configuration, against a server
\* that may refuse connections, send any kind of frame, close the session or
\* drop it.
ReconnectBackoffs == {1, DefaultBackoff, 40}

ClientConfigs ==
    {OracleWsClient(e, p, b) :
        e \in Endpoints, p \in {None, Some(Asset)}, b \in ReconnectBackoffs}

FramePrices == {1, 2}
PingPayloads == {"a", "b"}
FrameTimes == {7, 8}

GoodTexts ==
    {Text(TRUE, Tick(p, price, t)) :
        p \in Pairs, price \in FramePrices, t \in FrameTimes}
    \cup {Text(TRUE, [pair |-> Asset, price |-> 1, ts_ms |-> 7, seq |-> 1])}

BadTexts ==
    {Text(FALSE, [raw |-> "{"]),
     Text(TRUE, [pair |-> Asset, ts_ms |-> 8]),
     Text(TRUE, [price |-> 2, ts_ms |-> 8]),
     Text(TRUE, [pair |-> Asset, price |-> 2])}

Messages ==
    {TextMessage(txt) : txt \in GoodTexts \cup BadTexts}
    \cup {Message(k) : k \in {"Binary", "Pong", "Close", "Error", "End"}}
    \cup {PingMessage(p) : p \in PingPayloads}

InitOracle ==
    /\ orders = <<>>
    /\ nextId = 1
    /\ now = 0
    /\ cache = <<>>
    /\ lastSet = <<>>
    /\ WorkersInit
    /\ NoProbe
    /\ \E c \in ClientConfigs : ClientInit(c)
    /\ CacheIdle

NextOracle ==
    \/ \E ok \in BOOLEAN : client_connect(ok)
    \/ \E m \in Messages : client_message(m)
    \/ client_wake

SpecOracle == InitOracle /\ [][NextOracle]_vars

\* The cache shared by one task that calls set (the oracle client, sole
\* writer) and the workers that call get_price, every lock acquisition and
\* every access to the entry a step of its own.
CacheTicks ==
    {Tick(p, price, t) : p \in Pairs, price \in FramePrices, t \in FrameTimes}

NextCache ==
    \/ \E t \in CacheTicks : set_acquire(t)
    \/ set_insert_price
    \/ set_insert_done
    \/ \E r \in Readers :
           \/ get_acquire(r)
           \/ get_load_price(r)
           \/ get_load_ts(r)
           \/ get_return(r)

InitCache ==
    /\ orders = <<>>
    /\ nextId = 1
    /\ now = 0
    /\ cache = <<>>
    /\ lastSet = <<>>
    /\ WorkersInit
    /\ NoProbe
    /\ NoClient
    /\ CacheIdle

SpecCache == InitCache /\ [][NextCache]_vars

\* One worker on a seeded in-memory repository while the oracle client keeps
\* writing new ticks, of any price and timestamp, between the worker's steps.
NextTick ==
    \/ Worker(Asset, {FALSE})
    \/ \E price \in OraclePrices, t \in FrameTimes : oracle_tick(Asset, price, t)

SpecTick == InitMatcher /\ [][NextTick]_vars

\* The in-memory repository on its own, driven call by call with any
\* argument, ids that were never stored included, while the clock runs.
NewOrders ==
    {NewOrder(Asset, "Buy", 2, 1), NewOrder("ETH/USDT", "Sell", 2, 1),
     NewOrder(Asset, "Sell", 0, 1), NewOrder(Asset, "Buy", 2, 0 - 1)}

CallIds == 1..(MaxOrders + 1)

\* The queries list is called with: each filter absent or present, limits
\* and offsets negative, zero, within and beyond the number of orders.
Limits == {None} \cup {Some(n) : n \in (0 - 1)..MaxOrders}
Offsets == {None} \cup {Some(n) : n \in (0 - 1)..(MaxOrders + 1)}
ListQueries ==
    {ListOrdersQuery(p, st, l, off) :
        p \in {None, Some(Asset)}, st \in {None, Some("New")},
        l \in Limits, off \in Offsets}
CallStatuses == {"Open", "Cancelled"}

InitRepo ==
    /\ orders = <<>>
    /\ nextId = 1
    /\ now = 0
    /\ cache = <<>>
    /\ lastSet = <<>>
    /\ WorkersInit
    /\ NoProbe
    /\ NoClient
    /\ CacheIdle

NextRepo ==
    \/ \E new \in NewOrders : call_create(new)
    \/ \E id \in CallIds : call_get_by_id(id)
    \/ \E id \in CallIds, st \in CallStatuses : call_set_status(id, st)
    \/ \E id \in CallIds : call_delete(id)
    \/ clock_advance

SpecRepo == InitRepo /\ [][NextRepo]_vars

\* The HTTP surface on its own: clients posting any payload that
\* deserializes (price and quantity are any numbers), setting statuses and
\* deleting.
NextHttp ==
    \/ \E new \in NewOrders :
           create_order(new.pair, new.side, new.price, new.quantity)
    \/ \E id \in Ids, st \in CallStatuses : update_status(id, st)
    \/ \E id \in Ids : delete_order(id)

SpecHttp == InitRepo /\ [][NextHttp]_vars

\* list on its own: one call, with any query, on a repository seeded with
\* orders of any pair and status, as the repository's tests seed it.
ListSeeds == {m \in Seeds : \A i \in Ids : m[i].side = "Buy"}

InitList ==
    /\ orders \in ListSeeds
    /\ nextId = MaxOrders + 1
    /\ now = 0
    /\ cache = <<>>
    /\ lastSet = <<>>
    /\ WorkersInit
    /\ NoProbe
    /\ NoClient
    /\ CacheIdle

NextList ==
    /\ probe = None
    /\ \E q \in ListQueries, ord \in Perms(DOMAIN orders) : call_list(q, ord)

SpecList == InitList /\ [][NextList]_vars

\* crosses on its own: any order, any oracle price.
Probes ==
    {[px |-> p, o |-> Order_new(1, Asset, side, price, 1, 0)] :
        side \in Sides, price \in Prices, p \in Prices}

InitCrosses ==
    /\ orders = <<>>
    /\ nextId = 1
    /\ now = 0
    /\ cache = <<>>
    /\ lastSet = <<>>
    /\ WorkersInit
    /\ NoClient
    /\ CacheIdle
    /\ \E st \in OrderStatus : \E c \in Probes :
           probe = Some([c EXCEPT !.o.status = st])
    /\ answer = None

crosses_call ==
    /\ answer = None
    /\ answer' = Some(crosses(Unwrap(probe).o, Unwrap(probe).px))
    /\ UNCHANGED <<probe, orders, nextId, now, cache, lastSet>>
    /\ UNCHANGED wvars
    /\ UNCHANGED ovars
    /\ UNCHANGED kvars

NextCrosses == crosses_call

SpecCrosses == InitCrosses /\ [][NextCrosses]_vars

\* start_matchers on its own: any list of assets, a pair named any number of
\* times.
StartAssets == Pairs \cup {"SOL/USDT"}

AssetLists == UNION {[1..n -> StartAssets] : n \in 0..MaxAssets}

InitStart ==
    /\ orders = <<>>
    /\ nextId = 1
    /\ now = 0
    /\ cache = <<>>
    /\ lastSet = <<>>
    /\ WorkersInit
    /\ NoClient
    /\ CacheIdle
    /\ \E l \in AssetLists : probe = Some([assets |-> l])
    /\ answer = None

start_matchers_call ==
    /\ answer = None
    /\ answer' = Some(start_matchers(Unwrap(probe).assets))
    /\ UNCHANGED <<probe, orders, nextId, now, cache, lastSet>>
    /\ UNCHANGED wvars
    /\ UNCHANGED ovars
    /\ UNCHANGED kvars

NextStart == start_matchers_call

SpecStart == InitStart /\ [][NextStart]_vars

\* ================================================================ claims
\* The crossing rule as the specification words it.
Crossing(o, p) ==
    \/ o.side = "Buy" /\ o.price >= p
    \/ o.side = "Sell" /\ o.price <= p

ActiveSet == {"New", "Open", "PartiallyFilled"}

\* The tick of the worker under study: its Vec, its price, and per position
\* whether the set_status call for that order went through.
Acts == active[Asset]
P == px[Asset]
Ok(i) == Acts[i].id \notin failed[Asset]
Stored(i) == orders[Acts[i].id]
AtSummary == pc[Asset] = "summary"
\* The three list calls are done and no order has been processed yet.
Collected == pc[Asset] = "process" /\ idx[Asset] = 1
Num(S) == Cardinality(S)

\* C1: crosses(o, px) is true exactly when the order is a buy at or above px
\* or a sell at or below px; equality crosses on both sides.
C1_CrossesIff ==
    answer # None =>
        (Unwrap(answer) <=> Crossing(Unwrap(probe).o, Unwrap(probe).px))

C1_Witness ==
    /\ answer = Some(TRUE)
    /\ Unwrap(probe).o.side = "Sell"
    /\ Unwrap(probe).o.price = Unwrap(probe).px

\* C2: at the end of a tick in which every set_status succeeded, every
\* crossing order of the active set is Filled whatever its listed status and
\* side, matched is the number of crossing orders and promoted counts only
\* the New orders that do not cross.
C2_FillsAllCrossing ==
    (AtSummary /\ failed[Asset] = {}) =>
        /\ \A i \in DOMAIN Acts :
               Crossing(Acts[i], P) => Stored(i).status = "Filled"
        /\ matched[Asset] = Num({i \in DOMAIN Acts : Crossing(Acts[i], P)})
        /\ promoted[Asset] =
               Num({i \in DOMAIN Acts :
                       ~Crossing(Acts[i], P) /\ Acts[i].status = "New"})

C2_Witness ==
    /\ AtSummary
    /\ failed[Asset] = {}
    /\ matched[Asset] = 2
    /\ promoted[Asset] = 0
    /\ \E i, j \in DOMAIN Acts :
           /\ Acts[i].status = "PartiallyFilled" /\ Acts[i].side = "Sell"
           /\ Acts[j].status = "New" /\ Acts[j].side = "Buy"
           /\ Stored(i).status = "Filled" /\ Stored(j).status = "Filled"

\* C3: a tick sets a New order that does not cross to Open and counts it in
\* promoted, not in matched; a later tick that lists it as Open at a price it
\* does not cross leaves it Open and counts it in neither counter.
C3_PromotesNewOnce ==
    AtSummary =>
        /\ \A i \in DOMAIN Acts :
               (Acts[i].status = "New" /\ ~Crossing(Acts[i], P) /\ Ok(i))
                   => Stored(i).status = "Open"
        /\ \A i \in DOMAIN Acts :
               (Acts[i].status = "Open" /\ ~Crossing(Acts[i], P))
                   => Stored(i).status = "Open"
        /\ promoted[Asset] =
               Num({i \in DOMAIN Acts :
                       Acts[i].status = "New" /\ ~Crossing(Acts[i], P) /\ Ok(i)})
        /\ matched[Asset] =
               Num({i \in DOMAIN Acts : Crossing(Acts[i], P) /\ Ok(i)})

\* The second tick: the order was seeded with updated = created, so an Open
\* order with a later `updated` was promoted by an earlier tick.
C3_Witness ==
    /\ AtSummary
    /\ Len(Acts) = 1
    /\ Acts[1].status = "Open"
    /\ Acts[1].updated > Acts[1].created
    /\ ~Crossing(Acts[1], P)
    /\ Stored(1).status = "Open"
    /\ matched[Asset] = 0
    /\ promoted[Asset] = 0

\* C4: for an order listed as Open or PartiallyFilled that does not cross, a
\* tick calls set_status not at all: the stored order (status and updated
\* included) is still the listed one once the loop has passed it, and the
\* tick's calls and counters cover only the crossing and the New orders.
C4_NoPhantomPromotion ==
    /\ pc[Asset] \in {"process", "summary"} =>
           \A i \in 1..(idx[Asset] - 1) :
               (Acts[i].status \in {"Open", "PartiallyFilled"}
                    /\ ~Crossing(Acts[i], P))
                   => Stored(i) = Acts[i]
    /\ AtSummary =>
           /\ writes[Asset] =
                  Num({i \in DOMAIN Acts :
                          Crossing(Acts[i], P) \/ Acts[i].status = "New"})
           /\ matched[Asset] + promoted[Asset] <= writes[Asset]

C4_Witness ==
    /\ AtSummary
    /\ \E i \in DOMAIN Acts :
           /\ Acts[i].status = "PartiallyFilled"
           /\ ~Crossing(Acts[i], P)
           /\ now > Acts[i].updated
           /\ Stored(i) = Acts[i]
    /\ writes[Asset] = 0

\* C5: no step of a matcher tick changes an order whose stored status is
\* Filled or Cancelled, whatever the clients do in between.
C5_TickKeepsTerminal ==
    [][wvars' # wvars =>
          \A id \in DOMAIN orders :
              orders[id].status \in Terminal => orders'[id] = orders[id]]_vars

\* C6: an order whose status is Filled or Cancelled keeps that status for as
\* long as it is stored, whoever writes.
C6_TerminalIsFinal ==
    [][\A id \in DOMAIN orders \cap DOMAIN orders' :
          orders[id].status \in Terminal
              => orders'[id].status = orders[id].status]_vars

\* C7: while the cache has never held a tick for a worker's asset, the worker
\* has made no repository call and emitted no EXECUTE, and no order of that
\* asset changes, however often it ticks.
C7_NoPriceNoAction ==
    /\ [](\A a \in Assets :
            a \notin DOMAIN cache =>
                /\ pc[a] = "wait"
                /\ ~called[a]
                /\ writes[a] = 0
                /\ execs[a] = <<>>)
    /\ [][\A id \in DOMAIN orders :
            orders[id].pair \notin DOMAIN cache' => orders'[id] = orders[id]]_vars

C7_Witness ==
    /\ skipped[Unquoted]
    /\ Unquoted \notin DOMAIN cache
    /\ Asset \in DOMAIN cache
    /\ \E id \in DOMAIN orders :
           /\ orders[id].pair = Unquoted
           /\ orders[id].status = "New"
           /\ orders[id].side = "Buy"
    /\ \E id \in DOMAIN orders :
           orders[id].pair = Asset /\ orders[id].updated = 0
                /\ orders[id].status = "Filled" /\ matched[Asset] = 1

\* C8: an order whose set_status failed in a tick is stored as it was listed,
\* neither counter moved for it, and the rest of the active set was still
\* processed: the loop reached the end, and every other crossing order is
\* Filled, every other New order Open.
C8_FailureIsolated ==
    AtSummary =>
        /\ \A i \in DOMAIN Acts : ~Ok(i) => Stored(i) = Acts[i]
        /\ matched[Asset] + promoted[Asset]
               = writes[Asset] - Num(failed[Asset])
        /\ idx[Asset] = Len(Acts) + 1
        /\ \A i \in DOMAIN Acts :
               Ok(i) =>
                   /\ Crossing(Acts[i], P) => Stored(i).status = "Filled"
                   /\ (~Crossing(Acts[i], P) /\ Acts[i].status = "New")
                          => Stored(i).status = "Open"

C8_Witness ==
    /\ AtSummary
    /\ matched[Asset] = 1
    /\ promoted[Asset] = 0
    /\ Len(Acts) = 2
    /\ ~Ok(1) /\ Ok(2)
    /\ Acts[1].status = "Open" /\ Acts[2].status = "Open"
    /\ Crossing(Acts[1], P) /\ Crossing(Acts[2], P)
    /\ Stored(1).status = "Open"
    /\ Stored(2).status = "Filled"

\* C9: when list calls fail, the Vec that collect_active_orders returns holds
\* exactly the orders of the asset in the statuses whose list call succeeded,
\* and the tick processes them.
C9_PartialListFailure ==
    /\ Collected =>
           /\ Range(Acts) =
                  {orders[id] : id \in {x \in DOMAIN orders :
                      /\ orders[x].pair = Asset
                      /\ orders[x].status \in ActiveSet \ listFailed[Asset]}}
           /\ Len(Acts) = Num(Range(Acts))
    /\ (AtSummary /\ listFailed[Asset] # {}) =>
           /\ idx[Asset] = Len(Acts) + 1
           /\ writes[Asset] =
                  Num({i \in DOMAIN Acts :
                          Crossing(Acts[i], P) \/ Acts[i].status = "New"})

C9_Witness ==
    /\ AtSummary
    /\ listFailed[Asset] = {"Open"}
    /\ Len(Acts) = 1
    /\ Acts[1].status = "PartiallyFilled"
    /\ Stored(1).status = "Filled"
    /\ \E id \in DOMAIN orders :
           orders[id].pair = Asset /\ orders[id].status = "Open"

C11_WorkerKeepsTicking ==
    /\ [](pc[Asset] \in {"wait", "collect", "process", "summary"})
    /\ []<>(pc[Asset] = "wait")

\* Back at the wait after a tick in which a set_status call failed, having
\* also skipped a tick for want of a price.
C11_Witness ==
    /\ pc[Asset] = "wait"
    /\ failed[Asset] # {}
    /\ skipped[Asset]
    /\ called[Asset]

\* C12: every set_status call a matcher worker issues has target Filled or
\* Open, Open only for an order it listed as New; no step of a worker makes a
\* stored order PartiallyFilled.
C12_NeverWritesPartial ==
    /\ [](\A a \in Assets : \A i \in DOMAIN issued[a] :
             /\ issued[a][i].target \in {"Filled", "Open"}
             /\ issued[a][i].target = "Open" => issued[a][i].listed = "New")
    /\ [][\A id \in DOMAIN orders :
             orders'[id].status = "PartiallyFilled"
                 => orders[id].status = "PartiallyFilled"]_vars

\* A tick that filled an order listed as PartiallyFilled and promoted a New
\* one.
C12_Witness ==
    /\ AtSummary
    /\ \E i, j \in DOMAIN issued[Asset] :
           /\ issued[Asset][i].listed = "PartiallyFilled"
           /\ issued[Asset][i].target = "Filled"
           /\ issued[Asset][j].listed = "New"
           /\ issued[Asset][j].target = "Open"
           /\ orders[issued[Asset][j].id].status = "Open"

\* C13: a step of the HTTP surface (one that is no worker's) changes the
\* status of a stored order to Cancelled only.
C13_HttpWritesOnlyCancelled ==
    [][wvars' = wvars =>
          \A id \in DOMAIN orders \cap DOMAIN orders' :
              orders'[id].status # orders[id].status
                  => orders'[id].status = "Cancelled"]_vars

\* What get_price returns for a stored tick.
Quote(t) == Some([price |-> t.price, ts_ms |-> t.ts_ms])

\* C14: get_price(pair) is absent exactly for the pairs no set was ever made
\* for, and pairs() is exactly the set of pairs a set was made for.
C14_AbsentIffNeverSet ==
    /\ \A p \in Pairs :
           get_price(cache, p) = None <=> p \notin DOMAIN lastSet
    /\ pairs(cache) = DOMAIN lastSet

\* One pair was set and reads as present, the other never and reads absent.
C14_Witness ==
    /\ conn = "Connected"
    /\ DOMAIN lastSet = {Asset}
    /\ get_price(cache, Asset) = Quote(lastSet[Asset])
    /\ get_price(cache, Unquoted) = None
    /\ pairs(cache) = {Asset}

\* C15: get_price(pair) is the (price, ts_ms) of the most recent set for the
\* pair, whatever the timestamps, and a set leaves what get_price returns for
\* every other pair as it was.
C15_LastWriteWins ==
    /\ [](\A p \in DOMAIN lastSet : get_price(cache, p) = Quote(lastSet[p]))
    /\ [][\A q \in Pairs :
             (q \notin DOMAIN lastSet'
                 \/ (q \in DOMAIN lastSet /\ lastSet'[q] = lastSet[q]))
             => get_price(cache', q) = get_price(cache, q)]_vars

\* Both pairs are stored, and the last frame handled was a tick stamped
\* earlier than the tick stored for the other pair.
C15_Witness ==
    /\ DOMAIN lastSet = Pairs
    /\ lastFrame = Some(TextMessage(Text(TRUE, Tick(Asset, 1, 7))))
    /\ get_price(cache, Asset) = Some([price |-> 1, ts_ms |-> 7])
    /\ get_price(cache, Unquoted) = Some([price |-> 2, ts_ms |-> 8])

\* A text frame that is no tick: not JSON, or a required field is missing.
Undecodable(m) ==
    /\ m.kind = "Text"
    /\ \/ ~m.txt.wellformed
       \/ \E f \in {"pair", "price", "ts_ms"} : f \notin DOMAIN m.txt.fields

\* C16: handling a text frame that does not decode changes the cache for no
\* pair and leaves the client Connected; the frames that follow it in the
\* session are handled, a tick among them is stored.
C16_BadFrameSkipped ==
    /\ [][(conn = "Connected" /\ Undecodable(Unwrap(lastFrame')))
             => (cache' = cache /\ conn' = "Connected")]_vars
    /\ [](badSeen /\ conn = "Connected" =>
             LET m == Unwrap(lastFrame)
             IN  (m.kind = "Text" /\ ~Undecodable(m)) =>
                     get_price(cache, m.txt.fields.pair)
                         = Some([price |-> m.txt.fields.price,
                                 ts_ms |-> m.txt.fields.ts_ms]))

\* A session that skipped a frame without the price field and then stored
\* the tick that followed, next to the entry it already had.
C16_Witness ==
    /\ conn = "Connected"
    /\ badSeen
    /\ lastFrame = Some(TextMessage(Text(TRUE, Tick(Asset, 2, 8))))
    /\ get_price(cache, Asset) = Some([price |-> 2, ts_ms |-> 8])
    /\ get_price(cache, Unquoted) = Some([price |-> 1, ts_ms |-> 7])

\* C17: whatever a get_price call returns for a pair is the price and the
\* timestamp of one and the same tick passed to set for that pair before,
\* however the calls of the readers interleave with those of the writer.
C17_NoTornRead ==
    \A r \in Readers :
        (rpc[r] = "done" /\ result[r] # None) =>
            \E t \in written :
                /\ t.pair = r
                /\ t.price = Unwrap(result[r]).price
                /\ t.ts_ms = Unwrap(result[r]).ts_ms

\* A reader holds the result of one tick while the writer, having stored a
\* tick with another price and another timestamp since, is half way through
\* a third insert for the same pair.
C17_Witness ==
    /\ rpc[Asset] = "done"
    /\ result[Asset] = Some([price |-> 1, ts_ms |-> 7])
    /\ Tick(Asset, 2, 8) \in written
    /\ wpc = "ts"
    /\ lastSet[Asset] = Tick(Asset, 2, 8)
    /\ rpc[Unquoted] = "idle"

\* C18: for every configured reconnect_backoff, the sleeps of the client
\* since its last successful connect never decrease from one to the next and
\* none is longer than the cap.
C18_BackoffCapped ==
    /\ \A k \in DOMAIN waits : waits[k] <= BackoffCap
    /\ \A k \in DOMAIN waits : k > 1 => waits[k - 1] <= waits[k]

RECURSIVE Pow2(_)
Pow2(n) == IF n = 0 THEN 1 ELSE 2 * Pow2(n - 1)

\* C19: the k-th sleep since the last successful connect (or since start) is
\* min(initial_backoff * 2^(k-1), max_backoff); in particular the first
\* sleep after a session is initial_backoff.
C19_BackoffSchedule ==
    conn # "NoClient" =>
        \A k \in DOMAIN waits :
            waits[k] = Min(Unwrap(config).reconnect_backoff * Pow2(k - 1),
                           BackoffCap)

\* C20: in every configuration the client stays in its loop, and a connect
\* failure, a read error, a close frame or the end of the stream lead to the
\* sleep of the current backoff and from there to the next connect attempt.
C20_ClientNeverExits ==
    /\ [](conn \in {"Connecting", "Connected", "WaitingBackoff"})
    /\ [][conn = "WaitingBackoff" => conn' \in {"WaitingBackoff", "Connecting"}]_vars
    /\ [][(conn \in {"Connecting", "Connected"} /\ conn' \notin {conn, "Connected"})
             => (conn' = "WaitingBackoff" /\ waits' = Append(waits, backoff))]_vars

IsCall(op) == now' = now /\ probe' # None /\ Unwrap(probe').op = op

\* C22: create succeeds; the order it returns has status New, created =
\* updated, the pair, side, price and quantity of the request and an id that
\* no order created before has (stored or deleted since); that order is
\* stored under its id and a get_by_id that follows returns it.
C22_CreateReturnsStored ==
    [][IsCall("create") =>
         LET new == Unwrap(probe').new
             r == Unwrap(answer')
             o == r.order
             g == get_by_id(orders', o.id)
         IN  /\ r.ok
             /\ o.status = "New"
             /\ o.created = o.updated
             /\ o.pair = new.pair /\ o.side = new.side
             /\ o.price = new.price /\ o.quantity = new.quantity
             /\ o.id \notin DOMAIN orders
             /\ \A i \in 1..(nextId - 1) : o.id # i
             /\ g.ok /\ g.order = o
             /\ \A i \in DOMAIN orders : i \in DOMAIN orders' /\ orders'[i] = orders[i]]_vars

\* The second order was created after the first was deleted.
C22_Witness ==
    /\ probe = Some([new |-> NewOrder("ETH/USDT", "Sell", 2, 1),
                     op |-> "create"])
    /\ Unwrap(answer).order.id = 2
    /\ DOMAIN orders = {2}
    /\ now = 1

\* C23: after every successful set_status(id, s) the stored order and the
\* returned order are the same, both have status s, and their updated is at
\* least created and at least the updated the order had before the call.
C23_SetStatusStamps ==
    [][(IsCall("set_status") /\ Unwrap(answer').ok) =>
         LET c == Unwrap(probe')
             o == Unwrap(answer').order
         IN  /\ c.id \in DOMAIN orders /\ c.id \in DOMAIN orders'
             /\ orders'[c.id] = o
             /\ o.id = c.id
             /\ o.status = c.status
             /\ o.updated >= o.created
             /\ o.updated >= orders[c.id].updated]_vars

\* An order created at time 0 was cancelled at time 1.
C23_Witness ==
    /\ probe = Some([id |-> 1, status |-> "Cancelled", op |-> "set_status"])
    /\ Unwrap(answer).ok
    /\ orders[1] = Unwrap(answer).order
    /\ orders[1].status = "Cancelled"
    /\ orders[1].created = 0
    /\ orders[1].updated = 1

\* C24: get_by_id, set_status and delete called with an id that is not
\* stored return the not-found error and leave the repository as it was.
C24_NotFoundPaths ==
    [][(/\ now' = now
        /\ probe' # None
        /\ Unwrap(probe').op \in {"get_by_id", "set_status", "delete"}
        /\ Unwrap(probe').id \notin DOMAIN orders) =>
           /\ ~Unwrap(answer').ok
           /\ orders' = orders]_vars

\* set_status on an order that was deleted, another one being stored.
C24_Witness ==
    /\ probe = Some([id |-> 1, status |-> "Open", op |-> "set_status"])
    /\ ~Unwrap(answer).ok
    /\ DOMAIN orders = {2}

\* The ids handed out so far whose order is no longer stored: orders leave
\* the repository by delete only.
Deleted == {i \in 1..(nextId - 1) : i \notin DOMAIN orders}

\* C25: a successful delete(id) removes the order of that id and leaves
\* every other order as it was; from then on, for as long as the process
\* runs, get_by_id(id) returns not found (GET answers 404) and no result of
\* list, whatever the query, contains the order.
C25_DeleteIsFinal ==
    /\ [][(IsCall("delete") /\ Unwrap(answer').ok) =>
             LET id == Unwrap(probe').id
             IN  /\ id \in DOMAIN orders
                 /\ DOMAIN orders' = DOMAIN orders \ {id}
                 /\ \A i \in DOMAIN orders' : orders'[i] = orders[i]]_vars
    /\ [][\A i \in Deleted : i \notin DOMAIN orders']_vars
    /\ [](\A i \in Deleted :
             /\ ~get_by_id(orders, i).ok
             /\ get_order(orders, i).status = 404
             /\ \A q \in ListQueries, ord \in Perms(DOMAIN orders) :
                    \A k \in DOMAIN list(orders, q, ord) :
                        list(orders, q, ord)[k].id # i)

\* The first order was deleted, the second is still stored, and time has
\* passed since.
C25_Witness ==
    /\ probe = Some([id |-> 1, op |-> "delete"])
    /\ Unwrap(answer).ok
    /\ DOMAIN orders = {2}
    /\ orders[2].status = "Open"

\* The orders that match every filter present in the query, in the order in
\* which the map yields them.
Matching(q, ord) ==
    SelectSeq([i \in DOMAIN ord |-> orders[ord[i]]],
              LAMBDA o : /\ (q.pair # None => o.pair = Unwrap(q.pair))
                         /\ (q.status # None => o.status = Unwrap(q.status)))

\* C26: list never fails and never modifies the repository; over the orders
\* matching all the filters present (pair and status), it returns the slice
\* that starts at max(offset, 0): at most `limit` orders when limit > 0, the
\* whole remainder when the limit is absent or <= 0, and nothing when the
\* start is at or beyond the number of matching orders.
C26_ListSlices ==
    [][IsCall("list") =>
         LET q == Unwrap(probe').q
             M == Matching(q, Unwrap(probe').ord)
             n == Len(M)
             off == IF q.offset = None THEN 0 ELSE Unwrap(q.offset)
             start == IF off > 0 THEN off ELSE 0
             limited == q.limit # None /\ Unwrap(q.limit) > 0
             r == Unwrap(answer').items
         IN  /\ Unwrap(answer').ok
             /\ orders' = orders
             /\ start >= n => r = <<>>
             /\ start < n =>
                    /\ Len(r) = IF limited THEN Min(Unwrap(q.limit), n - start)
                                 ELSE n - start
                    /\ \A k \in 1..Len(r) : r[k] = M[start + k]]_vars

\* Both orders match the two filters; the query skips one and takes one.
C26_Witness ==
    /\ probe = Some([q |-> ListOrdersQuery(Some(Asset), Some("New"),
                                           Some(1), Some(1)),
                     ord |-> <<2, 1>>, op |-> "list"])
    /\ \A i \in DOMAIN orders : orders[i].pair = Asset /\ orders[i].status = "New"
    /\ Unwrap(answer).items = <<orders[1]>>

\* C27: every stored order has price > 0 and quantity > 0, whatever create
\* requests were made through the HTTP surface and the repository.
C27_StoredArePositive ==
    \A i \in DOMAIN orders : orders[i].price > 0 /\ orders[i].quantity > 0

\* C28: when the three list calls of a tick succeed and no order changes
\* between them, the Vec that collect_active_orders(A) returns holds each
\* stored order with pair = A and status New, Open or PartiallyFilled, once
\* and as stored, and nothing else: no Filled or Cancelled order and no
\* order of another pair.
C28_CollectsExactlyActive ==
    (Collected /\ listFailed[Asset] = {}) =>
        /\ {Acts[i].id : i \in DOMAIN Acts} =
               {x \in DOMAIN orders : /\ orders[x].pair = Asset
                                      /\ orders[x].status \in ActiveSet}
        /\ \A i \in DOMAIN Acts :
               /\ Acts[i] = orders[Acts[i].id]
               /\ Acts[i].pair = Asset
               /\ Acts[i].status \notin Terminal
               /\ \A j \in DOMAIN Acts : Acts[j].id = Acts[i].id => j = i

\* One order of the asset is collected; the other stored order is an Open
\* order of the other pair.
C28_Witness ==
    /\ Collected
    /\ listFailed[Asset] = {}
    /\ Len(Acts) = 1
    /\ Acts[1].status = "PartiallyFilled"
    /\ \E x \in DOMAIN orders :
           /\ x # Acts[1].id
           /\ orders[x].pair = Unquoted
           /\ orders[x].status = "Open"

\* C29: inside the matcher no set_status call returns not found, in any
\* interleaving with the HTTP requests (the in-memory repository fails a
\* set_status with not found only).
C29_NeverNotFound == \A a \in Assets : failed[a] = {}

\* C29, amended: inside the matcher a set_status call returns not found
\* exactly when the order it listed has been deleted before the call; the
\* repository is then left as it was, neither counter is incremented, no
\* EXECUTE record is emitted and the tick goes on with the next order.
C29_NotFoundOnlyAfterDelete ==
    [][(pc[Asset] = "process" /\ idx'[Asset] = idx[Asset] + 1) =>
         LET o == Acts[idx[Asset]]
             made == issued'[Asset] # issued[Asset]
             notFound == made /\ o.id \in failed'[Asset]
         IN  /\ made => (notFound <=> o.id \notin DOMAIN orders)
             /\ notFound =>
                    /\ o.id \in 1..(nextId - 1)
                    /\ orders' = orders
                    /\ matched' = matched
                    /\ promoted' = promoted
                    /\ execs' = execs
                    /\ pc'[Asset] =
                           IF idx[Asset] = Len(Acts) THEN "summary"
                           ELSE "process"]_vars

\* The first listed order was deleted before its set_status call, which
\* returned not found; the second was filled in the same tick.
C29_Witness ==
    /\ AtSummary
    /\ Len(Acts) = 2
    /\ Acts[1].id \notin DOMAIN orders
    /\ failed[Asset] = {Acts[1].id}
    /\ Acts[2].id \in DOMAIN orders
    /\ orders[Acts[2].id].status = "Filled"
    /\ matched[Asset] = 1

\* The worker is inside a tick: past get_price, before the interval wait.
InTick == pc[Asset] \in {"collect", "process", "summary"}

\* C30: a tick reads (px, ts) from the cache once, at its start; whatever
\* the oracle client writes while the tick runs, the pair stays the same
\* until the summary, every order is filled exactly if it crosses that px,
\* and every EXECUTE record of the tick carries that px as exec_px and that
\* ts as oracle_ts.
C30_OnePricePerTick ==
    /\ [][(pc[Asset] = "wait" /\ InTick') =>
             /\ Asset \in DOMAIN cache
             /\ px'[Asset] = cache[Asset].price
             /\ ts'[Asset] = cache[Asset].ts_ms]_vars
    /\ [][(InTick /\ InTick') =>
             px'[Asset] = px[Asset] /\ ts'[Asset] = ts[Asset]]_vars
    /\ [](InTick =>
             /\ \A k \in DOMAIN execs[Asset] :
                    /\ execs[Asset][k].exec_px = px[Asset]
                    /\ execs[Asset][k].oracle_ts = ts[Asset]
                    /\ \E i \in 1..(idx[Asset] - 1) :
                           /\ Acts[i].id = execs[Asset][k].order_id
                           /\ Crossing(Acts[i], px[Asset])
             /\ \A i \in 1..(idx[Asset] - 1) :
                    Crossing(Acts[i], px[Asset]) <=>
                        \E k \in DOMAIN issued[Asset] :
                            /\ issued[Asset][k].id = Acts[i].id
                            /\ issued[Asset][k].target = "Filled")

\* The tick read (1, 7) and filled a buy order at limit 2; the cache has
\* since moved to (3, 8), at which the order would not cross.
C30_Witness ==
    /\ AtSummary
    /\ px[Asset] = 1 /\ ts[Asset] = 7
    /\ cache[Asset].price = 3 /\ cache[Asset].ts_ms = 8
    /\ Len(execs[Asset]) = 1
    /\ execs[Asset][1].side = "Buy"
    /\ execs[Asset][1].exec_px = 1
    /\ execs[Asset][1].oracle_ts = 7
    /\ orders[execs[Asset][1].order_id].status = "Filled"

\* The ids of the orders a worker holds in its Vec, and of the orders it has
\* addressed a set_status call to in its current tick.
HeldIds(a) == {active[a][i].id : i \in DOMAIN active[a]}
IssuedIds(a) == {issued[a][i].id : i \in DOMAIN issued[a]}

\* C31: two matcher workers for different assets never issue set_status on
\* the same order, in every interleaving of their ticks: every order a
\* worker collects and every order it addresses is of the worker's own pair,
\* so the orders of two workers are disjoint.
C31_WorkersDisjoint ==
    \A a \in Assets :
        /\ \A i \in DOMAIN active[a] : active[a][i].pair = a
        /\ \A x \in IssuedIds(a) : orders[x].pair = a
        /\ \A b \in Assets \ {a} :
               /\ HeldIds(a) \cap HeldIds(b) = {}
               /\ IssuedIds(a) \cap IssuedIds(b) = {}

\* Both workers are inside a tick and each has issued a set_status call, one
\* a fill and the other a promotion.
C31_Witness ==
    /\ pc[Asset] = "summary"
    /\ pc[Unquoted] = "summary"
    /\ \E i \in DOMAIN issued[Asset] : issued[Asset][i].target = "Filled"
    /\ \E i \in DOMAIN issued[Unquoted] : issued[Unquoted][i].target = "Open"

\* What an order is created with.
Fixed(o) ==
    [id |-> o.id, pair |-> o.pair, side |-> o.side, price |-> o.price,
     quantity |-> o.quantity, created |-> o.created]

\* A step that changes a stored order and neither adds nor removes one: a
\* set_status call that went through, from the worker or from PUT status.
SetStatusStep == orders' # orders /\ DOMAIN orders' = DOMAIN orders

\* C32: an order's id, pair, side, price, quantity and created timestamp
\* never change after creation: in every step every order that stays stored
\* keeps the six, and a set_status (from the matcher or from HTTP) modifies
\* only status and updated of the addressed order and leaves every other
\* order as it was.
C32_OnlyStatusChanges ==
    [][/\ \A x \in DOMAIN orders \cap DOMAIN orders' :
              Fixed(orders'[x]) = Fixed(orders[x])
       /\ SetStatusStep =>
              \E x \in DOMAIN orders :
                  /\ \A y \in DOMAIN orders \ {x} : orders'[y] = orders[y]
                  /\ orders'[x] =
                         [orders[x] EXCEPT !.status = orders'[x].status,
                                           !.updated = orders'[x].updated]
       /\ (pc[Asset] = "process" /\ issued'[Asset] # issued[Asset]) =>
              \A y \in DOMAIN orders \ {Acts[idx[Asset]].id} :
                  y \in DOMAIN orders' /\ orders'[y] = orders[y]]_vars

\* Two orders created at time 0; later one has been filled by the worker and
\* the other cancelled over HTTP.
C32_Witness ==
    /\ DOMAIN orders = Ids
    /\ \E x, y \in Ids :
           /\ orders[x].status = "Filled"
           /\ orders[x].created = 0
           /\ orders[x].updated = 1
           /\ orders[y].status = "Cancelled"
           /\ orders[y].created = 0
           /\ orders[y].updated = 1

\* The tasks start_matchers has spawned for the list it was given.
Spawned == Unwrap(answer)

\* C33: start_matchers runs at most one worker per pair for every asset list
\* it is given (including a list that names the same pair twice): no two of
\* the tasks it spawns are given the same asset.
C33_OneWorkerPerPair ==
    answer # None =>
        \A i, j \in DOMAIN Spawned :
            Spawned[i].asset = Spawned[j].asset => i = j

\* C34: within one tick each order id is processed at most once: the active
\* set built from the three list calls contains no order twice, so matched +
\* promoted never exceeds the number of distinct active orders and at most
\* one EXECUTE is emitted per order per tick, even when HTTP status updates
\* interleave with the three list calls.
C34_OncePerTick ==
    /\ \A i, j \in DOMAIN Acts : Acts[i].id = Acts[j].id => i = j
    /\ matched[Asset] + promoted[Asset] <= Num(HeldIds(Asset))
    /\ \A i, j \in DOMAIN execs[Asset] :
           execs[Asset][i].order_id = execs[Asset][j].order_id => i = j

\* The oracle client has no session: it is connecting or asleep in backoff.
Disconnected == conn \in {"Connecting", "WaitingBackoff"}

\* C35: a cache entry is never removed or expired: once get_price(pair) has
\* returned a value it never returns absent again, including while the
\* oracle client is disconnected or waiting in backoff, so a tick that
\* starts then does not skip: it reads the last stored price and goes on to
\* fill against it.
C35_EntriesStay ==
    [][/\ \A p \in DOMAIN cache :
              /\ get_price(cache, p) # None
              /\ get_price(cache', p) # None
              /\ ~(conn = "Connected" /\ conn' = "Connected") =>
                     get_price(cache', p) = get_price(cache, p)
       /\ (/\ Disconnected
           /\ Asset \in DOMAIN cache
           /\ pc[Asset] = "wait"
           /\ <<pc, skipped>>' # <<pc, skipped>>) =>
              /\ pc'[Asset] = "collect"
              /\ px'[Asset] = lastSet[Asset].price
              /\ ts'[Asset] = lastSet[Asset].ts_ms
              /\ skipped' = skipped]_vars

\* The session is gone and the client asleep in backoff; a tick that started
\* after the session ended has read the price stored before and has filled
\* an order against it.
C35_Witness ==
    /\ conn = "WaitingBackoff"
    /\ stale[Asset]
    /\ AtSummary
    /\ execs[Asset] # <<>>
    /\ execs[Asset][1].exec_px = cache[Asset].price
    /\ Unquoted \in DOMAIN cache

\* Order x is in the Vec of the tick, listed with status New; listed with a
\* limit that crosses the price the tick read.
ListedNew(x) ==
    \E i \in DOMAIN Acts : Acts[i].id = x /\ Acts[i].status = "New"
ListedCrossing(x) ==
    \E i \in DOMAIN Acts : Acts[i].id = x /\ Crossing(Acts[i], P)

\* C36: under fair scheduling, with a price present for the asset and the
\* repository calls succeeding, every order that is New when a tick of the
\* worker lists it has left New (it is Open or Filled) by the end of that
\* tick, and every active order whose limit crosses the price read in the
\* tick is Filled by the end of that tick; the tick does reach its end.
C36_TickSettles ==
    /\ [](AtSummary =>
             \A i \in DOMAIN Acts :
                 /\ Acts[i].status = "New" =>
                        Stored(i).status \in {"Open", "Filled"}
                 /\ Crossing(Acts[i], P) => Stored(i).status = "Filled")
    /\ \A x \in Ids :
           /\ (Collected /\ ListedNew(x)) ~>
                  (AtSummary /\ ListedNew(x)
                             /\ orders[x].status \in {"Open", "Filled"})
           /\ (Collected /\ ListedCrossing(x)) ~>
                  (AtSummary /\ ListedCrossing(x)
                             /\ orders[x].status = "Filled")

\* The end of a tick at price 3 over a New buy and an Open sell, both at
\* limit 2: the buy does not cross and is Open, the sell crosses and is
\* Filled.
C36_Witness ==
    /\ AtSummary
    /\ P = 3
    /\ Len(Acts) = 2
    /\ \E i, j \in DOMAIN Acts :
           /\ Acts[i].status = "New"
           /\ Acts[i].side = "Buy"
           /\ Stored(i).status = "Open"
           /\ Acts[j].status = "Open"
           /\ Acts[j].side = "Sell"
           /\ Stored(j).status = "Filled"

=============================================================================
